---- MODULE Spec2Model ----
(***************************************************************************)
(* Smart Container Dashboard (src/dashboard.py): one Streamlit session.    *)
(*                                                                         *)
(* Every execution of the script (a "page run") is one action.  A page run *)
(* is started either by st.rerun() / the first page load (pc = "run") or   *)
(* by a widget event of the user on the page rendered last.                *)
(*                                                                         *)
(* Numbers.  A finite distance is an integer count of tenths of a unit     *)
(* (Tenths), a finite level an integer count of eighths of a percent        *)
(* (Eighths): (120 - d) * (100 / 80) = (1200 - 10 d) / 8, so a level in    *)
(* eighths is exactly 1200 minus the distance in tenths.  The non-finite   *)
(* floats are the strings "nan", "inf", "-inf".  Binary rounding of the    *)
(* float product is not modelled.                                          *)
(*                                                                         *)
(* Time.  clock counts the reads of the wall clock; every read returns a   *)
(* later instant than the one before.                                      *)
(***************************************************************************)
EXTENDS Integers, Sequences, FiniteSets, TLC

VARIABLES
    logged_in,        \* st.session_state.logged_in
    df,               \* st.session_state.df: sequence of rows [Time, Distance]
    last_update,      \* st.session_state.last_update: None or an instant
    auto_refresh,     \* st.session_state.auto_refresh
    app,              \* firebase_admin's default app exists (process global)
    update_interval,  \* value of the "Update Interval (seconds)" slider
    pc,               \* "run": a page run is queued; "sleeping": in time.sleep;
                      \* "idle": the script ended, waiting for a widget event
    page,             \* what the last page run left on screen
    message,          \* the st.error / st.warning the last page run showed
    metric,           \* the "Container Level" metric the last run showed, or None
    data,             \* what ref.get() returned in the last page run
    trigger,          \* what started the last page run
    sleep_arg,        \* argument of the time.sleep the script is blocked in
    form,             \* values of the Username and Password text inputs
    rows_before,      \* len(st.session_state.df) when the last page run began
    clock             \* reads of the wall clock so far

vars == << logged_in, df, last_update, auto_refresh, app, update_interval, pc,
           page, message, metric, data, trigger, sleep_arg, form, rows_before,
           clock >>

\* An absent optional value is the empty sequence, a present one <<value>>.
None == << >>
Some(x) == << x >>

-----------------------------------------------------------------------------
(* Bounds of the model *)

\* Appends that the short specification runs.
MaxAppends == 3
\* Appends past the cap of the history that the long specification runs.
MaxOver == 2
\* Longest text value of the data source that is enumerated.
MaxText == 3
\* Distances enumerated for the transform run from MaxDist tenths below 0 to
\* MaxDist tenths above 120.
MaxDist == 30

-----------------------------------------------------------------------------
(* Program constants *)

VALID_USERNAME == "admin"
VALID_PASSWORD == "admin123"
\* tail(100): rows kept in the history
MaxRows == 100
\* slider: min_value, max_value, value
SliderMin == 1
SliderMax == 60
SliderDefault == 3
\* a distance of n units, in tenths
Tenths(n) == 10 * n
\* a level of n percent, in eighths
Eighths(n) == 8 * n
\* the 120 of (120 - distance)
EmptyDistance == Tenths(120)
\* the 100 of min(100, ...)
FullLevel == Eighths(100)

-----------------------------------------------------------------------------
(* Floats *)

Fin(n) == [cls |-> "fin", v |-> n]
NaN == [cls |-> "nan", v |-> 0]
PosInf == [cls |-> "inf", v |-> 0]
NegInf == [cls |-> "-inf", v |-> 0]

\* a < b on Python floats: false as soon as one side is nan
PyLt(a, b) ==
    CASE a.cls = "nan" \/ b.cls = "nan" -> FALSE
      [] a.cls = "fin" /\ b.cls = "fin" -> a.v < b.v
      [] a.cls = "-inf" -> b.cls # "-inf"
      [] a.cls = "inf" -> FALSE
      [] OTHER -> b.cls = "inf"

\* min(a, b) of the builtin: the first argument unless the second is smaller
PyMin(a, b) == IF PyLt(b, a) THEN b ELSE a

\* max(a, b) of the builtin: the first argument unless the second is greater
PyMax(a, b) == IF PyLt(a, b) THEN b ELSE a

\* a - b on floats, a finite
PySubFrom(a, b) ==
    CASE b.cls = "fin" -> Fin(a - b.v)
      [] b.cls = "nan" -> NaN
      [] b.cls = "inf" -> NegInf
      [] OTHER -> PosInf

-----------------------------------------------------------------------------
(* float(data) *)

Digits == {"0", "4", "8"}
DigitVal(c) == CASE c = "0" -> 0 [] c = "4" -> 4 [] OTHER -> 8

RECURSIVE LStrip(_)
LStrip(s) == IF s # << >> /\ Head(s) = " " THEN LStrip(Tail(s)) ELSE s

RECURSIVE RStrip(_)
RStrip(s) ==
    IF s # << >> /\ s[Len(s)] = " " THEN RStrip(SubSeq(s, 1, Len(s) - 1)) ELSE s

\* value of a run of decimal digits
RECURSIVE DecVal(_)
DecVal(s) ==
    IF s = << >> THEN 0
    ELSE 10 * DecVal(SubSeq(s, 1, Len(s) - 1)) + DigitVal(s[Len(s)])

AllDigits(s) == s # << >> /\ \A i \in 1..Len(s) : s[i] \in Digits

Raised(e) == [exc |-> e, val |-> NaN]
Returned(x) == [exc |-> "none", val |-> x]

\* float(str): blanks stripped, an optional sign, then digits, "nan" or "inf"
FloatOfText(s) ==
    LET t == RStrip(LStrip(s))
        signed == t # << >> /\ Head(t) \in {"+", "-"}
        neg == t # << >> /\ Head(t) = "-"
        body == IF signed THEN Tail(t) ELSE t
    IN  CASE AllDigits(body) ->
                Returned(Fin(IF neg THEN 0 - Tenths(DecVal(body))
                                    ELSE Tenths(DecVal(body))))
          [] body = <<"n", "a", "n">> -> Returned(NaN)
          [] body = <<"i", "n", "f">> -> Returned(IF neg THEN NegInf ELSE PosInf)
          [] OTHER -> Raised("ValueError")

\* float(data) for a value of the data source
PyFloat(raw) ==
    CASE raw.kind = "num" -> Returned(Fin(raw.num))
      [] raw.kind = "bool" -> Returned(Fin(Tenths(raw.num)))
      [] raw.kind = "str" -> FloatOfText(raw.text)
      [] OTHER -> Raised("TypeError")

\* Values ref.get() returns: a JSON number, boolean, string, object, or nothing
NoData == [kind |-> "none", num |-> 0, text |-> << >>]
Num(n) == [kind |-> "num", num |-> n, text |-> << >>]
Bool(b) == [kind |-> "bool", num |-> IF b THEN 1 ELSE 0, text |-> << >>]
Text(s) == [kind |-> "str", num |-> 0, text |-> s]
Object == [kind |-> "dict", num |-> 0, text |-> << >>]
\* ref.get() or db.reference() raised
FetchFailed == [kind |-> "raise", num |-> 0, text |-> << >>]

-----------------------------------------------------------------------------
(* Level transform and history *)

\* the transform with the lower clamp left out: min(100, ...)
LevelWithoutFloor(distance) ==
    PyMin(Fin(FullLevel), PySubFrom(EmptyDistance, distance))

\* max(0, min(100, (120 - distance) * (100 / 80)))
ContainerLevel(distance) ==
    PyMax(Fin(0), PyMin(Fin(FullLevel), PySubFrom(EmptyDistance, distance)))

\* DataFrame.head(100) in place of tail(100): the newest rows are dropped
HeadRows(rows) ==
    IF Len(rows) > MaxRows THEN SubSeq(rows, 1, MaxRows) ELSE rows

\* DataFrame.tail(100)
TailRows(rows) ==
    IF Len(rows) > MaxRows THEN SubSeq(rows, Len(rows) - MaxRows + 1, Len(rows))
    ELSE rows

\* pd.concat([df, new_row], ignore_index=True)
Concat(rows, row) == Append(rows, row)

\* container_level - df['Distance'].iloc[-2], both finite
Delta(level, rows) == level.v - rows[Len(rows) - 1].Distance.v

\* the Update DataFrame step: concat the new row, keep the last 100
UpdateDataFrame(rows, current_time, container_level) ==
    TailRows(Concat(rows, [Time |-> current_time, Distance |-> container_level]))

\* delta taken against iloc[-1], the row just appended
DeltaAgainstNewest(container_level, rows) ==
    IF Len(rows) > 1 THEN Some(container_level.v - rows[Len(rows)].Distance.v)
    ELSE None

\* delta = None; if len(df) > 1: delta = container_level - df['Distance'].iloc[-2]
ComputeDelta(container_level, rows) ==
    IF Len(rows) > 1 THEN Some(Delta(container_level, rows)) ELSE None

\* a clear that keeps the newest row: df.tail(1)
ClearKeepsNewest(clear_data, rows) ==
    IF clear_data /\ rows # << >> THEN << rows[Len(rows)] >> ELSE rows

\* if clear_data: st.session_state.df = pd.DataFrame(columns=["Time", "Distance"])
ClearData(clear_data, rows) == IF clear_data THEN << >> ELSE rows

\* Which branch of the try blocks a fetched value takes
Outcome(fetched) ==
    CASE fetched.kind = "raise" -> "fetch_error"
      [] fetched.kind = "none" -> "no_data"
      [] PyFloat(fetched).exc # "none" -> "process_error"
      [] OTHER -> "ok"

\* a failed cycle that still records a row, of level 0
RowsAfterAlways(outcome, rows, current_time, container_level) ==
    UpdateDataFrame(rows, current_time,
                    IF outcome = "ok" THEN container_level ELSE Fin(0))

\* st.session_state.df at the end of the try blocks
RowsAfter(outcome, rows, current_time, container_level) ==
    IF outcome = "ok" THEN UpdateDataFrame(rows, current_time, container_level)
    ELSE rows

\* last_update reset to None by a cycle that fails
LastUpdateReset(outcome, previous, now) ==
    IF outcome = "ok" THEN Some(now) ELSE None

\* st.session_state.last_update at the end of the try blocks
LastUpdateAfter(outcome, previous, now) ==
    IF outcome = "ok" THEN Some(now) ELSE previous

\* The auto-refresh step: sleep and rerun, or let the script end
AfterCycle(auto) == IF auto THEN "sleeping" ELSE "idle"

-----------------------------------------------------------------------------
(* Session *)

NotFetched == [kind |-> "unfetched", num |-> 0, text |-> << >>]
EmptyForm == [username |-> "", password |-> ""]

Init ==
    /\ logged_in = FALSE
    /\ df = << >>
    /\ last_update = None
    /\ auto_refresh = TRUE
    /\ app = FALSE
    /\ update_interval = SliderDefault
    /\ pc = "run"
    /\ page = "none"
    /\ message = "none"
    /\ metric = None
    /\ data = NotFetched
    /\ trigger = "none"
    /\ sleep_arg = 0
    /\ form = EmptyForm
    /\ rows_before = 0
    /\ clock = 0

\* the credential test with "or" in place of "and"
EitherCredentialMatches(username, password) ==
    username = VALID_USERNAME \/ password = VALID_PASSWORD

\* username == VALID_USERNAME and password == VALID_PASSWORD
CredentialsMatch(username, password) ==
    username = VALID_USERNAME /\ password = VALID_PASSWORD

\* main() without the gate: the dashboard runs whatever logged_in is
Ungated(logged) == "main_dashboard"

\* main(): which function the page run calls
MainBranch(logged) == IF logged THEN "main_dashboard" ELSE "login"

\* Widget events the page on screen offers
Offered(tr) ==
    CASE tr = "rerun" -> pc = "run"
      [] tr \in {"text", "login"} -> pc = "idle" /\ page = "login"
      [] tr \in {"logout", "slider", "toggle", "clear"} ->
            pc \in {"run", "idle"} /\ page = "dashboard"
      [] tr = "refresh" ->
            pc \in {"run", "idle"} /\ page = "dashboard" /\ ~auto_refresh
      [] tr = "download" ->
            pc \in {"run", "idle"} /\ page = "dashboard" /\ metric # None
      [] OTHER -> FALSE

\* A page run that calls login(): tr is "rerun", "text" (the user edited the
\* text inputs to typed) or "login" (the user pressed Login)
login(tr, typed) ==
    LET entered == IF tr = "text" THEN typed ELSE form
        pressed == tr = "login"
        match == CredentialsMatch(entered.username, entered.password)
    IN  /\ MainBranch(logged_in) = "login"
        /\ Offered(tr)
        /\ trigger' = tr
        /\ form' = entered
        /\ rows_before' = Len(df)
        /\ logged_in' = (pressed /\ match)
        /\ pc' = IF pressed /\ match THEN "run" ELSE "idle"
        /\ page' = IF pressed /\ match THEN "none" ELSE "login"
        /\ message' = IF pressed /\ ~match THEN "invalid_login" ELSE "none"
        /\ metric' = None
        /\ data' = NotFetched
        \* the dashboard's slider is not on this page: its widget state is dropped
        /\ update_interval' = SliderDefault
        /\ UNCHANGED << df, last_update, auto_refresh, app, sleep_arg, clock >>

\* A page run that calls main_dashboard(): tr is what started it, init_ok
\* whether Firebase initialisation succeeds if attempted, fetched what the data
\* source answers, moved the slider position chosen on a "slider" event
main_dashboard(tr, init_ok, fetched, moved) ==
    LET interval == IF tr = "slider" THEN moved ELSE update_interval
        auto == IF tr = "toggle" THEN ~auto_refresh ELSE auto_refresh
        cleared == ClearData(tr = "clear", df)
        outcome == Outcome(fetched)
        container_level == ContainerLevel(PyFloat(fetched).val)
        current_time == clock + 1
        rows == RowsAfter(outcome, cleared, current_time, container_level)
    IN  /\ MainBranch(logged_in) = "main_dashboard"
        /\ Offered(tr)
        /\ trigger' = tr
        /\ rows_before' = Len(df)
        /\ form' = EmptyForm
        /\ IF ~app /\ ~init_ok
           THEN \* st.error("Firebase initialization error"); return
                /\ message' = "init_error"
                /\ page' = "init_error"
                /\ pc' = "idle"
                /\ metric' = None
                /\ data' = NotFetched
                /\ UNCHANGED << logged_in, df, last_update, auto_refresh, app,
                                update_interval, sleep_arg, clock >>
           ELSE IF tr = "logout"
           THEN \* st.session_state.logged_in = False; st.rerun()
                /\ app' = TRUE
                /\ logged_in' = FALSE
                /\ pc' = "run"
                /\ page' = "none"
                /\ message' = "none"
                /\ metric' = None
                /\ data' = NotFetched
                /\ UNCHANGED << df, last_update, auto_refresh, update_interval,
                                sleep_arg, clock >>
           ELSE IF tr = "refresh" /\ ~auto
           THEN \* the Refresh Data button: st.rerun()
                /\ app' = TRUE
                /\ pc' = "run"
                /\ page' = "none"
                /\ message' = "none"
                /\ metric' = None
                /\ data' = NotFetched
                /\ df' = cleared
                /\ auto_refresh' = auto
                /\ update_interval' = interval
                /\ UNCHANGED << logged_in, last_update, sleep_arg, clock >>
           ELSE /\ app' = TRUE
                /\ auto_refresh' = auto
                /\ update_interval' = interval
                /\ data' = fetched
                /\ df' = rows
                /\ last_update' = LastUpdateAfter(outcome, last_update, clock + 2)
                /\ clock' = IF outcome = "ok" THEN clock + 2 ELSE clock
                /\ metric' = IF outcome = "ok"
                             THEN Some([value |-> container_level,
                                        delta |-> ComputeDelta(container_level, rows)])
                             ELSE None
                /\ message' = IF outcome = "ok" THEN "none" ELSE outcome
                /\ page' = "dashboard"
                /\ pc' = AfterCycle(auto)
                /\ sleep_arg' = IF AfterCycle(auto) = "sleeping" THEN interval ELSE 0
                /\ UNCHANGED logged_in

\* time.sleep(update_interval) returns; st.rerun()
Wake ==
    /\ pc = "sleeping"
    /\ pc' = "run"
    /\ sleep_arg' = 0
    /\ UNCHANGED << logged_in, df, last_update, auto_refresh, app, update_interval,
                    page, message, metric, data, trigger, form, rows_before, clock >>

-----------------------------------------------------------------------------
(* Spec: every input free, a short history *)

Forms ==
    [username : {VALID_USERNAME, "Admin", ""}, password : {VALID_PASSWORD, VALID_USERNAME}]

LoginTriggers == {"rerun", "text", "login"}
DashboardTriggers ==
    {"rerun", "logout", "slider", "toggle", "clear", "refresh", "download"}
SliderStops == {SliderMin, SliderDefault, SliderMax}

\* Answers of the data source: a failure, nothing, malformed values, readings
ShortFetch ==
    { FetchFailed, NoData, Object, Text(<<"x">>), Text(<<"n", "a", "n">>),
      Text(<<"8", "0">>), Num(Tenths(40)), Num(Tenths(130)) }

LoginPage == \E tr \in LoginTriggers, typed \in Forms : login(tr, typed)

Dashboard ==
    \E tr \in DashboardTriggers, init_ok \in (IF app THEN {TRUE} ELSE BOOLEAN),
       fetched \in ShortFetch :
    \E moved \in (IF tr = "slider" THEN SliderStops ELSE {update_interval}) :
        /\ Outcome(fetched) = "ok" => clock < 2 * MaxAppends
        /\ main_dashboard(tr, init_ok, fetched, moved)

Next == LoginPage \/ Dashboard \/ Wake

Spec == Init /\ [][Next]_vars

-----------------------------------------------------------------------------
(* SpecLong: the sensor sweeps, the history runs past its cap *)

\* Distance the sensor reports for its k-th sample: a sweep over the container
SensorSweep(k) == Num(Tenths(35) + 45 * (k % 21))

LoginLong ==
    \E tr \in LoginTriggers :
        login(tr, [username |-> VALID_USERNAME, password |-> VALID_PASSWORD])

DashboardLong ==
    \E tr \in {"rerun", "logout", "clear"},
       init_ok \in (IF app THEN {TRUE} ELSE BOOLEAN),
       fetched \in {SensorSweep(clock \div 2), FetchFailed} :
        /\ Outcome(fetched) = "ok" => clock < 2 * (MaxRows + MaxOver)
        /\ main_dashboard(tr, init_ok, fetched, update_interval)

NextLong == LoginLong \/ DashboardLong \/ Wake

SpecLong == Init /\ [][NextLong]_vars

-----------------------------------------------------------------------------
(* SpecTransform: the first fetch of a session, drawn from every kind of    *)
(* value the data source can hold                                          *)

Alphabet == Digits \cup {"-", "+", " ", "n", "a", "i", "f", "x"}
Texts == UNION { [1..n -> Alphabet] : n \in 0..MaxText }

AllFetch ==
    { FetchFailed, NoData, Object, Bool(TRUE), Bool(FALSE) }
    \cup { Num(d) : d \in (0 - MaxDist)..(EmptyDistance + MaxDist) }
    \cup { Text(s) : s \in Texts }

LoginTransform ==
    \E tr \in LoginTriggers :
        login(tr, [username |-> VALID_USERNAME, password |-> VALID_PASSWORD])

DashboardTransform ==
    /\ data = NotFetched
    /\ \E init_ok \in (IF app THEN {TRUE} ELSE BOOLEAN), fetched \in AllFetch :
          main_dashboard("rerun", init_ok, fetched, update_interval)

NextTransform == LoginTransform \/ DashboardTransform \/ Wake

SpecTransform == Init /\ [][NextTransform]_vars

-----------------------------------------------------------------------------
(* Claims *)

\* a page run started by tr takes this step
Ran(tr) == pc # "sleeping" /\ trigger' = tr

\* this step is a page run that appended a reading
Appended == pc # "sleeping" /\ clock' # clock

\* C1: the history never holds more than 100 rows; an append keeps the rows
\* already there in their order and adds the new row last, and on a history
\* of 100 rows it drops exactly the oldest row; a step without an append
\* leaves the history as it is or empties it.
C1_HistoryCapFifo ==
    /\ Len(df) <= MaxRows
    /\ [][ /\ Len(df') <= MaxRows
           /\ (Appended /\ trigger' # "clear") =>
                LET dropped == IF Len(df) = MaxRows THEN 1 ELSE 0
                IN  /\ Len(df') = Len(df) + 1 - dropped
                    /\ df'[Len(df')].Time = clock + 1
                    /\ \A i \in 1..(Len(df') - 1) : df'[i] = df[i + dropped]
           /\ ~Appended => df' \in {df, << >>}
         ]_vars

\* 101 appends in a row were made: the rows of the 2nd to the 101st are held
C1_Witness ==
    /\ rows_before = MaxRows
    /\ Len(df) = MaxRows
    /\ df[1].Time = 3
    /\ df[MaxRows].Time = 2 * MaxRows + 1

\* C5: the delta shown with the metric is absent when the history, after the
\* append and the truncation, holds fewer than 2 rows, and is otherwise the
\* newest level minus the second newest; a row holds a time and a level only.
C5_DeltaShown ==
    /\ \A i \in 1..Len(df) : DOMAIN df[i] = {"Time", "Distance"}
    /\ metric # None =>
         LET n == Len(df)
         IN  /\ n >= 1
             /\ df[n].Distance = metric[1].value
             /\ n < 2 => metric[1].delta = None
             /\ n >= 2 =>
                  metric[1].delta = Some(df[n].Distance.v - df[n - 1].Distance.v)

\* a non-zero delta is shown for an append that evicted the oldest row
C5_Witness ==
    /\ metric # None
    /\ rows_before = MaxRows
    /\ Len(df) = MaxRows
    /\ metric[1].delta \notin {None, Some(0)}

\* C6: a page run started by Clear Historical Data keeps no row the history
\* held before it, whatever their number: the history after the run holds at
\* most the row of that run's own reading.
C6_ClearResets ==
    [][ Ran("clear") =>
          /\ Len(df') <= 1
          /\ \A i \in 1..Len(df') : df'[i].Time > clock
          /\ ~Appended => df' = << >>
      ]_vars

\* a full history was cleared
C6_Witness == trigger = "clear" /\ rows_before = MaxRows /\ df = << >>

\* clamp(0, 100, (120 - d) * 100 / 80) for a finite distance of d tenths, in eighths
Clamp(d) ==
    IF Tenths(120) - d < 0 THEN 0
    ELSE IF Tenths(120) - d > Eighths(100) THEN Eighths(100)
    ELSE Tenths(120) - d

\* C2: for every value float() accepts, the level shown and stored is the
\* clamp of (120 - d) * 100 / 80 to [0, 100], no error is reported, and the
\* history holds only levels in [0, 100]: d = 40 gives 100, d = 120 gives 0,
\* d = 80 gives 50, d <= 40 gives 100, d >= 120 gives 0.
C2_LevelClamped ==
    /\ \A i \in 1..Len(df) :
         /\ df[i].Distance.cls = "fin"
         /\ df[i].Distance.v \in 0..Eighths(100)
    /\ Outcome(data) = "ok" =>
         LET d == PyFloat(data).val
             level == metric[1].value
         IN  /\ metric # None
             /\ message = "none"
             /\ df[Len(df)].Distance = level
             /\ level.cls = "fin"
             /\ level.v \in 0..Eighths(100)
             /\ d.cls = "fin" => level.v = Clamp(d.v)
             /\ d.cls = "inf" => level.v = 0
             /\ d.cls = "-inf" => level.v = Eighths(100)
             /\ d = Fin(Tenths(40)) => level.v = Eighths(100)
             /\ d = Fin(Tenths(120)) => level.v = 0
             /\ d = Fin(Tenths(80)) => level.v = Eighths(50)
             /\ (d.cls = "fin" /\ d.v <= Tenths(40)) => level.v = Eighths(100)
             /\ (d.cls = "fin" /\ d.v >= Tenths(120)) => level.v = 0

\* a distance beyond 120 was read and stored as level 0
C2_Witness ==
    /\ data.kind = "num"
    /\ data.num > Tenths(120)
    /\ metric # None
    /\ df = << [Time |-> 1, Distance |-> Fin(0)] >>

ValidForm == [username |-> VALID_USERNAME, password |-> VALID_PASSWORD]

\* C3: the session starts logged out; a page run of a logged-out session logs
\* in exactly when Login was pressed with both text inputs equal to the fixed
\* credentials, and a press with any other input leaves it logged out and
\* shows the error.
C3_LoginIffMatch ==
    /\ logged_in = FALSE
    /\ [][ ~logged_in =>
             /\ logged_in' <=> (Ran("login") /\ form = ValidForm)
             /\ (Ran("login") /\ form # ValidForm) =>
                  ~logged_in' /\ message' = "invalid_login"
         ]_vars

\* Login pressed with both fixed credentials entered logged the session in
C3_Witness ==
    /\ logged_in
    /\ trigger = "login"
    /\ form = ValidForm
    /\ df = << >>

\* C4: in every logged-in state in which the script has ended, the page on
\* screen offers Logout.
C4_LogoutAvailable == (logged_in /\ pc = "idle") => page = "dashboard"

\* this step is a page run that reached the fetch
Fetched == pc # "sleeping" /\ data' # NotFetched

\* C7: a page run whose fetch raises, returns nothing or returns a value that
\* float() rejects appends no row (the history is kept, or emptied by a
\* clear of the same run), leaves last_update and logged_in alone, reports
\* the failure, shows no metric, and goes on to its auto-refresh step.
C7_FailedCycleSkips ==
    [][ (Fetched /\ Outcome(data') # "ok") =>
          /\ df' = IF trigger' = "clear" THEN << >> ELSE df
          /\ last_update' = last_update
          /\ logged_in' = logged_in
          /\ clock' = clock
          /\ message' = Outcome(data')
          /\ message' \in {"fetch_error", "no_data", "process_error"}
          /\ metric' = None
          /\ page' = "dashboard"
          /\ pc' = IF auto_refresh' THEN "sleeping" ELSE "idle"
      ]_vars

\* a malformed value was fetched into a session that holds rows
C7_Witness ==
    /\ message = "process_error"
    /\ data = Text(<<"x">>)
    /\ Len(df) >= 2
    /\ last_update # None
    /\ pc = "sleeping"

\* C8: a dashboard run that ended with auto-refresh enabled is blocked in its
\* sleep or has restarted the page, never ended for good.
C8_AutoRefreshRestarts ==
    (logged_in /\ auto_refresh /\ page \in {"dashboard", "init_error"})
        => pc \in {"sleeping", "run"}

\* C9: a page run of a logged-out session, and the page run that logs out,
\* fetch nothing, read no clock and leave the history and last_update as
\* they are.
C9_GateFrames ==
    [][ (~logged_in \/ ~logged_in') =>
          /\ df' = df
          /\ last_update' = last_update
          /\ clock' = clock
          /\ data' = NotFetched
      ]_vars

\* a session that holds rows logged out and logged in again
C9_Witness ==
    /\ logged_in
    /\ trigger = "login"
    /\ Len(df) >= 2
    /\ last_update # None

\* C10: a page run started by Clear Historical Data whose fetch succeeds
\* ends with exactly the row of its own reading and shows no delta; one whose
\* fetch does not succeed ends with an empty history and the last_update it
\* began with.
C10_ClearThenFetch ==
    [][ (Ran("clear") /\ Fetched) =>
          IF Outcome(data') = "ok"
          THEN /\ metric' # None
               /\ df' = << [Time |-> clock + 1, Distance |-> metric'[1].value] >>
               /\ metric'[1].value = ContainerLevel(PyFloat(data').val)
               /\ metric'[1].delta = None
               /\ last_update' = Some(clock + 2)
          ELSE /\ df' = << >>
               /\ last_update' = last_update
      ]_vars

\* a clear of two or more rows that fetched a reading in the same run
C10_Witness ==
    /\ trigger = "clear"
    /\ rows_before >= 2
    /\ Len(df) = 1
    /\ metric # None

\* a clear whose fetch failed kept the last_update of an earlier cycle
C10_WitnessFailed ==
    /\ trigger = "clear"
    /\ rows_before >= 2
    /\ df = << >>
    /\ last_update # None

====
